---- MODULE Spec2Model ----
(***************************************************************************)
(* The multi-agent shopping workflow: gemini.run (console) and             *)
(* shopping_app.execute_multi_agent (dashboard), both driving              *)
(* gemini.run_agent_task three times against one MCP tool session, and     *)
(* the script that starts the workflow with asyncio.run.                   *)
(*                                                                         *)
(* The model backend, the MCP tool server and the logging sink are the     *)
(* environment: each await on them is a step whose outcome (return or      *)
(* raise, and the response returned) is chosen nondeterministically.       *)
(* Time is counted in tenths of a second, so base_delay_sec = 1.2 is 12.   *)
(***************************************************************************)
EXTENDS Integers, Sequences, FiniteSets, TLC

VARIABLES
    variant,        \* "cli": gemini.run, "dash": shopping_app.execute_multi_agent
    enable_logs,    \* execute_multi_agent's enable_logs argument
    pc,             \* position of the workflow coroutine
    stdio,          \* the stdio_client transport: "none", "up", "down"
    session,        \* the ClientSession: "none", "open", "ready", "closed"
    closeCount,     \* number of ClientSession.__aexit__ calls in this run
    agent,          \* index in AgentSpecs of the run_agent_task in progress, 0 before
    tpc,            \* position inside run_agent_task
    attempt_num,    \* run_agent_task's loop variable
    response,       \* run_agent_task's local `response`
    wait_time,      \* run_agent_task's local `wait_time`
    log,            \* what the current run_agent_task has emitted so far
    fellBack,       \* the logger raised in an emit of the current task (stdout was used)
    invoked,        \* per agent: run_agent_task invocations in this run
    attempts,       \* per agent: generate_content calls made
    delays,         \* per agent: the asyncio.sleep durations awaited, in order
    callOrder,      \* agent index of every generate_content call, in call order
    returned,       \* per agent: what run_agent_task returned, Unset before
    succeeded,      \* per agent: attempt number and response of the call that returned
    initError,      \* "none", or the step of the session set-up that raised
    product_text,   \* the orchestrator's locals
    price_text,
    news_text,
    exc,            \* the exception propagating out of the workflow, NoExc if none
    report,         \* execute_multi_agent's return value, Unset before
    printed,        \* the texts gemini.run printed in the unified report, in order
    hpc,            \* position of the script around the workflow (dashboard handler, __main__)
    loop,           \* the thread's current asyncio event loop: "none", "set", "running"
    run_button,     \* st.button("Run Analysis")
    product_query,  \* st.text_input, a sequence of characters
    runs,           \* how many times the workflow coroutine was started by this script run
    rendered        \* the three sections render_section has shown

wfVars   == <<variant, enable_logs, pc, stdio, session, closeCount, exc, report, printed>>
taskVars == <<agent, tpc, attempt_num, response, wait_time, log, fellBack>>
histVars == <<invoked, attempts, delays, callOrder, returned, succeeded, initError>>
textVars == <<product_text, price_text, news_text>>
uiVars   == <<hpc, loop, run_button, product_query, runs, rendered>>
vars     == <<wfVars, taskVars, histVars, textVars, uiVars>>

----------------------------------------------------------------------------
(* Values *)

None  == "None"        \* Python's None
Unset == "unset"       \* a local not yet assigned
NoExc == "no exception"

\* gemini.py:70-71
max_attempts   == 4
base_delay_sec == 12

\* The three run_agent_task calls, in program order.
AgentSpecs == <<"Product Profile", "Price & Availability", "Trending News & Social Buzz">>
Agents     == 1..Len(AgentSpecs)

Texts == {"A", "B", "C"}

\* A part of a candidate's content: any of function_call, function_response, text.
Part(fc, fr, tx) == [function_call |-> fc, function_response |-> fr, text |-> tx]
\* A candidate; content_is_none says that candidate.content is None,
\* parts_is_none that candidate.content.parts is None.
Candidate(isNone, ps) == [content_is_none |-> isNone, parts_is_none |-> FALSE, parts |-> ps]
\* A candidate whose content is present and carries no parts list.
CandidateNoParts == [content_is_none |-> FALSE, parts_is_none |-> TRUE, parts |-> <<>>]
\* A response; candidates_is_none says that response.candidates is None.
Resp(isNone, cs, tx) == [candidates_is_none |-> isNone, candidates |-> cs, text |-> tx]

\* gemini.py:69, `response = None`
NoResponse == Resp(TRUE, <<>>, Unset)

\* The responses generate_content may return: no candidates (None or empty),
\* a candidate without content, a candidate whose content has no parts
\* list (the client library types parts as optional, and the code puts no
\* condition on the shape of the response), and tool parts followed by the
\* final text.
Responses ==
    { Resp(TRUE, <<>>, None),
      Resp(FALSE, <<>>, None),
      Resp(FALSE, <<Candidate(TRUE, <<>>)>>, None),
      Resp(FALSE, <<CandidateNoParts>>, None) }
    \cup
    { Resp(FALSE, <<Candidate(FALSE, <<Part("search", None, None),
                                       Part(None, "search", None),
                                       Part(None, None, t)>>)>>, t) : t \in Texts }

\* The exceptions a failing await raises.  asyncio.run's fallback in the
\* dashboard distinguishes RuntimeError from the rest.
Exceptions == {"RuntimeError", "OtherError"}

----------------------------------------------------------------------------
(* run_agent_task: pure parts *)

\* Mutant: the exponent counts from the attempt number, not from zero.
WaitTime_exponentOffByOne(n) == base_delay_sec * (2 ^ n)

\* gemini.py:85
WaitTime(n) == base_delay_sec * (2 ^ (n - 1))

\* Mutant: only the attribute is tested, not that the list is non-empty.
HasCandidates_noTruthTest(r) == TRUE

\* gemini.py:97, `hasattr(response, 'candidates') and response.candidates`
HasCandidates(r) == ~r.candidates_is_none /\ r.candidates # <<>>

\* gemini.py:99, `hasattr(candidate, 'content') and candidate.content`
HasContent(c) == ~c.content_is_none

\* gemini.py:101-110: the events emit_json is called with for part j of candidate i
PartEvents(i, j, p) ==
    (IF p.function_call # None
        THEN <<[kind |-> "tool_call", i |-> i, j |-> j, name |-> p.function_call]>>
        ELSE <<>>)
    \o
    (IF p.function_response # None
        THEN <<[kind |-> "tool_response", i |-> i, j |-> j, name |-> p.function_response]>>
        ELSE <<>>)
    \o
    (IF p.text # None /\ p.text # ""
        THEN <<[kind |-> "agent_response", i |-> i, j |-> j, name |-> p.text]>>
        ELSE <<>>)

RECURSIVE PartsEvents(_, _, _)
PartsEvents(i, parts, j) ==
    IF j > Len(parts) THEN <<>>
    ELSE PartEvents(i, j, parts[j]) \o PartsEvents(i, parts, j + 1)

RECURSIVE CandidatesEvents(_, _)
CandidatesEvents(cs, i) ==
    IF i > Len(cs) THEN <<>>
    ELSE (IF HasContent(cs[i]) THEN PartsEvents(i, cs[i].parts, 1) ELSE <<>>)
         \o CandidatesEvents(cs, i + 1)

\* gemini.py:98,100: enumerate(response.candidates) and
\* enumerate(candidate.content.parts) raise TypeError on None
WalkRaises(r) ==
    /\ HasCandidates(r)
    /\ \/ r.candidates_is_none
       \/ \E i \in 1..Len(r.candidates) :
              HasContent(r.candidates[i]) /\ r.candidates[i].parts_is_none

\* gemini.py:96-110
Classify(r) == IF HasCandidates(r) THEN CandidatesEvents(r.candidates, 1) ELSE <<>>

\* gemini.py:115,118, `response.text`
FinalText(r) == r.text

----------------------------------------------------------------------------
(* State after construction *)

\* No generate_content call of the task has returned yet.
NoSuccess == [n |-> 0, response |-> NoResponse]

\* shopping_app.py:104-108 before the return: no report
NoReport == [product |-> Unset, price |-> Unset, news |-> Unset]

\* The queries typed into the text input: empty, blank, and a product name
\* with a leading space.
Queries == {<<>>, <<" ">>, <<" ", "p">>}

\* shopping_app.py:111,114, str.strip
RECURSIVE Strip(_)
Strip(q) ==
    IF q = <<>> THEN q
    ELSE IF Head(q) = " " THEN Strip(Tail(q))
    ELSE IF q[Len(q)] = " " THEN Strip(SubSeq(q, 1, Len(q) - 1))
    ELSE q

Init ==
    /\ variant \in {"cli", "dash"}
    /\ enable_logs \in BOOLEAN
    /\ (variant = "cli" => enable_logs = FALSE)
    /\ hpc = "script"
    /\ loop \in {"none", "set", "running"}
    /\ run_button \in BOOLEAN
    /\ product_query \in Queries
    /\ (variant = "cli" => run_button = FALSE /\ product_query = <<>>)
    /\ runs = 0
    /\ rendered = <<>>
    /\ pc = "idle"
    /\ stdio = "none"
    /\ session = "none"
    /\ closeCount = 0
    /\ exc = NoExc
    /\ report = NoReport
    /\ printed = <<>>
    /\ agent = 0
    /\ tpc = "none"
    /\ attempt_num = 0
    /\ response = NoResponse
    /\ wait_time = 0
    /\ log = <<>>
    /\ fellBack = FALSE
    /\ invoked = [a \in Agents |-> 0]
    /\ attempts = [a \in Agents |-> 0]
    /\ delays = [a \in Agents |-> <<>>]
    /\ callOrder = <<>>
    /\ returned = [a \in Agents |-> Unset]
    /\ succeeded = [a \in Agents |-> NoSuccess]
    /\ initError = "none"
    /\ product_text = Unset
    /\ price_text = Unset
    /\ news_text = Unset

----------------------------------------------------------------------------
(* The script around the workflow: shopping_app.py:111-126, gemini.py:165-167 *)

\* shopping_app.py:111, `if run_button and product_query.strip()`
RunRequested == run_button /\ Strip(product_query) # <<>>

\* shopping_app.py:111: nothing was asked for, the script ends
ScriptSkips ==
    /\ hpc = "script"
    /\ variant = "dash"
    /\ ~RunRequested
    /\ hpc' = "finished"
    /\ UNCHANGED <<loop, run_button, product_query, runs, rendered>>
    /\ UNCHANGED <<wfVars, taskVars, histVars, textVars>>

\* shopping_app.py:111-114, gemini.py:165-167: the script reaches asyncio.run
ScriptRuns ==
    /\ hpc = "script"
    /\ variant = "cli" \/ RunRequested
    /\ hpc' = "asyncio_run"
    /\ UNCHANGED <<loop, run_button, product_query, runs, rendered>>
    /\ UNCHANGED <<wfVars, taskVars, histVars, textVars>>

\* The state in which a workflow coroutine starts to run.
FreshRun ==
    /\ pc' = "start"
    /\ stdio' = "none"
    /\ session' = "none"
    /\ closeCount' = 0
    /\ exc' = NoExc
    /\ report' = NoReport
    /\ printed' = <<>>
    /\ agent' = 0
    /\ tpc' = "none"
    /\ attempt_num' = 0
    /\ response' = NoResponse
    /\ wait_time' = 0
    /\ log' = <<>>
    /\ fellBack' = FALSE
    /\ invoked' = [a \in Agents |-> 0]
    /\ attempts' = [a \in Agents |-> 0]
    /\ delays' = [a \in Agents |-> <<>>]
    /\ callOrder' = <<>>
    /\ returned' = [a \in Agents |-> Unset]
    /\ succeeded' = [a \in Agents |-> NoSuccess]
    /\ initError' = "none"
    /\ product_text' = Unset
    /\ price_text' = Unset
    /\ news_text' = Unset
    /\ UNCHANGED <<variant, enable_logs>>

\* shopping_app.py:114, gemini.py:167: asyncio.run refuses to run inside a
\* running event loop (RuntimeError, the coroutine never starts); otherwise
\* it makes its own loop current and starts the workflow coroutine.
AsyncioRun ==
    /\ hpc = "asyncio_run"
    /\ IF loop = "running"
       THEN /\ exc' = "RuntimeError"
            /\ hpc' = IF variant = "dash" THEN "fallback" ELSE "crashed"
            /\ UNCHANGED <<loop, runs>>
            /\ UNCHANGED <<variant, enable_logs, pc, stdio, session, closeCount, report, printed>>
            /\ UNCHANGED <<taskVars, histVars, textVars>>
       ELSE /\ FreshRun
            /\ runs' = runs + 1
            /\ loop' = "running"
            /\ hpc' = "running"
    /\ UNCHANGED <<run_button, product_query, rendered>>

\* shopping_app.py:113-115, gemini.py:167: the coroutine has ended.  The loop
\* that ran it is closed and no loop is current any more (asyncio.run), or
\* the caller's loop stays current (run_until_complete).  A RuntimeError out
\* of asyncio.run enters the dashboard's except clause.
WorkflowEnds ==
    /\ hpc \in {"running", "running_fallback"}
    /\ pc \in {"done", "aborted"}
    /\ loop' = IF hpc = "running" THEN "none" ELSE "set"
    /\ hpc' = IF pc = "done"
                THEN (IF variant = "dash" THEN "render" ELSE "finished")
                ELSE (IF variant = "dash" /\ hpc = "running" /\ exc = "RuntimeError"
                         THEN "fallback" ELSE "crashed")
    /\ UNCHANGED <<run_button, product_query, runs, rendered>>
    /\ UNCHANGED <<wfVars, taskVars, histVars, textVars>>

\* Mutant: the fallback runs the workflow on a loop of its own.
FallbackStarts_newLoop(l) == TRUE

\* shopping_app.py:117-119: asyncio.get_event_loop() raises RuntimeError when
\* no loop is current, before execute_multi_agent is called;
\* run_until_complete raises RuntimeError when the loop is already running,
\* and the coroutine it was given never starts.  Only a loop that is current
\* and idle runs the workflow.
FallbackStarts(l) == l = "set"

\* shopping_app.py:115-119: the except clause
Fallback ==
    /\ hpc = "fallback"
    /\ IF FallbackStarts(loop)
       THEN /\ FreshRun
            /\ runs' = runs + 1
            /\ hpc' = "running_fallback"
       ELSE /\ exc' = "RuntimeError"
            /\ hpc' = "crashed"
            /\ runs' = runs
            /\ UNCHANGED <<variant, enable_logs, pc, stdio, session, closeCount, report, printed>>
            /\ UNCHANGED <<taskVars, histVars, textVars>>
    /\ UNCHANGED <<loop, run_button, product_query, rendered>>

\* Mutant: the content is shown as it is, without the "No data." default.
Render_noDefault(content) == content

\* shopping_app.py:25-28, `content or "No data."`
Render(content) == IF content \in {None, ""} THEN "No data." ELSE content

\* shopping_app.py:121-126: the three sections are rendered
RenderSections ==
    /\ hpc = "render"
    /\ rendered' = <<Render(report.product), Render(report.price), Render(report.news)>>
    /\ hpc' = "finished"
    /\ UNCHANGED <<loop, run_button, product_query, runs>>
    /\ UNCHANGED <<wfVars, taskVars, histVars, textVars>>

----------------------------------------------------------------------------
(* The tool session: stdio_client and ClientSession context managers *)

\* gemini.py:128, shopping_app.py:67: stdio_client.__aenter__ spawns the server
OpenStdio ==
    /\ pc = "start"
    /\ stdio' = "up"
    /\ pc' = "enter_session"
    /\ UNCHANGED <<variant, enable_logs, session, closeCount, exc, report, printed>>
    /\ UNCHANGED <<taskVars, histVars, textVars>>
    /\ UNCHANGED uiVars

\* The spawn fails: the exception leaves the workflow, nothing was acquired.
OpenStdioFails ==
    /\ pc = "start"
    /\ \E e \in Exceptions : exc' = e
    /\ pc' = "aborted"
    /\ initError' = "spawn"
    /\ UNCHANGED <<variant, enable_logs, stdio, session, closeCount, report, printed>>
    /\ UNCHANGED <<invoked, attempts, delays, callOrder, returned, succeeded>>
    /\ UNCHANGED <<taskVars, textVars>>
    /\ UNCHANGED uiVars

\* Mutant: the tasks are started without `await session.initialize()`.
EnterSession_skipInitialize ==
    /\ pc = "enter_session"
    /\ session' = "open"
    /\ pc' = "running"
    /\ UNCHANGED <<variant, enable_logs, stdio, closeCount, exc, report, printed>>
    /\ UNCHANGED <<taskVars, histVars, textVars>>
    /\ UNCHANGED uiVars

\* gemini.py:131, shopping_app.py:68: ClientSession.__aenter__
EnterSession ==
    /\ pc = "enter_session"
    /\ session' = "open"
    /\ pc' = "initialize"
    /\ UNCHANGED <<variant, enable_logs, stdio, closeCount, exc, report, printed>>
    /\ UNCHANGED <<taskVars, histVars, textVars>>
    /\ UNCHANGED uiVars

\* gemini.py:138, shopping_app.py:69: `await session.initialize()` returns
InitializeOk ==
    /\ pc = "initialize"
    /\ session' = "ready"
    /\ pc' = "running"
    /\ UNCHANGED <<variant, enable_logs, stdio, closeCount, exc, report, printed>>
    /\ UNCHANGED <<taskVars, histVars, textVars>>
    /\ UNCHANGED uiVars

\* Mutant: initialize is awaited outside the `async with` blocks, so its
\* exception leaves the workflow without any __aexit__.
InitializeFails_noExit ==
    /\ pc = "initialize"
    /\ \E e \in Exceptions : exc' = e
    /\ pc' = "aborted"
    /\ initError' = "initialize"
    /\ UNCHANGED <<variant, enable_logs, stdio, session, closeCount, report, printed>>
    /\ UNCHANGED <<invoked, attempts, delays, callOrder, returned, succeeded>>
    /\ UNCHANGED <<taskVars, textVars>>
    /\ UNCHANGED uiVars

\* Mutant: the exception of initialize is caught and the tasks are run anyway.
InitializeFails_swallowed ==
    /\ pc = "initialize"
    /\ pc' = "running"
    /\ initError' = "initialize"
    /\ UNCHANGED <<variant, enable_logs, stdio, session, closeCount, exc, report, printed>>
    /\ UNCHANGED <<invoked, attempts, delays, callOrder, returned, succeeded>>
    /\ UNCHANGED <<taskVars, textVars>>
    /\ UNCHANGED uiVars

\* `await session.initialize()` raises inside both `async with` blocks
InitializeFails ==
    /\ pc = "initialize"
    /\ \E e \in Exceptions : exc' = e
    /\ pc' = "exit_session"
    /\ initError' = "initialize"
    /\ UNCHANGED <<variant, enable_logs, stdio, session, closeCount, report, printed>>
    /\ UNCHANGED <<invoked, attempts, delays, callOrder, returned, succeeded>>
    /\ UNCHANGED <<taskVars, textVars>>
    /\ UNCHANGED uiVars

\* ClientSession.__aexit__, on leaving the inner `async with` (return or raise)
ExitSession ==
    /\ pc = "exit_session"
    /\ session' = "closed"
    /\ closeCount' = closeCount + 1
    /\ pc' = "exit_stdio"
    /\ UNCHANGED <<variant, enable_logs, stdio, exc, report, printed>>
    /\ UNCHANGED <<taskVars, histVars, textVars>>
    /\ UNCHANGED uiVars

\* stdio_client.__aexit__, on leaving the outer `async with`; the coroutine ends
ExitStdio ==
    /\ pc = "exit_stdio"
    /\ stdio' = "down"
    /\ pc' = IF exc = NoExc THEN "done" ELSE "aborted"
    /\ UNCHANGED <<variant, enable_logs, session, closeCount, exc, report, printed>>
    /\ UNCHANGED <<taskVars, histVars, textVars>>
    /\ UNCHANGED uiVars

----------------------------------------------------------------------------
(* run_agent_task *)

\* shopping_app.py:72,83,94: the logger handed to run_agent_task (None in gemini.run)
HasLogger == variant = "dash" /\ enable_logs

\* gemini.py:32-39, emit: to the logger when there is one, else to stdout
Emit(l, ev) == Append(l, [sink |-> IF HasLogger THEN "logger" ELSE "print", ev |-> ev])

\* gemini.py:33-37, 42-47: the logger may raise in any emit of a step; emit
\* and emit_json catch it and write to stdout instead.  `fresh` starts a task.
LoggerStep(fresh) ==
    \E raised \in BOOLEAN :
        fellBack' = ((~fresh /\ fellBack) \/ (HasLogger /\ raised))

RECURSIVE EmitAll(_, _)
EmitAll(l, evs) == IF evs = <<>> THEN l ELSE EmitAll(Emit(l, Head(evs)), Tail(evs))

\* Mutant: the price task is awaited before the product task.
NextAgent_priceFirst(a) == CASE a = 0 -> 2 [] a = 2 -> 1 [] a = 1 -> 3 [] OTHER -> a + 1

\* The orchestrator's sequential composition: the task that follows task a.
NextAgent(a) == a + 1

\* gemini.py:152-154 / shopping_app.py:73,84,95: run_agent_task is entered
\* (gemini.py:51-69) for the next agent spec.
StartTask ==
    /\ pc = "running"
    /\ tpc \in {"none", "returned"}
    /\ agent < Len(AgentSpecs)
    /\ agent' = NextAgent(agent)
    /\ invoked' = [invoked EXCEPT ![agent'] = @ + 1]
    /\ tpc' = "try"
    /\ attempt_num' = 1
    /\ response' = NoResponse
    /\ wait_time' = 0
    /\ log' = Emit(<<>>, [kind |-> "running", name |-> AgentSpecs[agent']])
    /\ LoggerStep(TRUE)
    /\ UNCHANGED <<attempts, delays, callOrder, returned, succeeded, initError>>
    /\ UNCHANGED <<wfVars, textVars>>
    /\ UNCHANGED uiVars

\* Mutant: the attempt is announced before the loop, once per task.
Attempt_announcedOnce ==
    /\ pc = "running"
    /\ tpc = "try"
    /\ log' = IF attempt_num = 1
              THEN Emit(log, [kind |-> "attempt", n |-> attempt_num, of |-> max_attempts])
              ELSE log
    /\ LoggerStep(FALSE)
    /\ attempts' = [attempts EXCEPT ![agent] = @ + 1]
    /\ callOrder' = Append(callOrder, agent)
    /\ tpc' = "call"
    /\ UNCHANGED <<agent, attempt_num, response, wait_time>>
    /\ UNCHANGED <<invoked, delays, returned, succeeded, initError>>
    /\ UNCHANGED <<wfVars, textVars>>
    /\ UNCHANGED uiVars

\* gemini.py:74-75: the attempt is announced and generate_content is awaited
Attempt ==
    /\ pc = "running"
    /\ tpc = "try"
    /\ log' = Emit(log, [kind |-> "attempt", n |-> attempt_num, of |-> max_attempts])
    /\ LoggerStep(FALSE)
    /\ attempts' = [attempts EXCEPT ![agent] = @ + 1]
    /\ callOrder' = Append(callOrder, agent)
    /\ tpc' = "call"
    /\ UNCHANGED <<agent, attempt_num, response, wait_time>>
    /\ UNCHANGED <<invoked, delays, returned, succeeded, initError>>
    /\ UNCHANGED <<wfVars, textVars>>
    /\ UNCHANGED uiVars

\* Mutant: the `break` is missing, the loop goes on after a success.
CallReturns_noBreak ==
    /\ pc = "running"
    /\ tpc = "call"
    /\ \E r \in Responses : response' = r
    /\ succeeded' = [succeeded EXCEPT ![agent] = [n |-> attempt_num, response |-> response']]
    /\ IF attempt_num + 1 \in 1..max_attempts
       THEN attempt_num' = attempt_num + 1 /\ tpc' = "try"
       ELSE attempt_num' = attempt_num /\ tpc' = "post"
    /\ UNCHANGED <<agent, wait_time, log, fellBack>>
    /\ UNCHANGED <<invoked, attempts, delays, callOrder, returned, initError>>
    /\ UNCHANGED <<wfVars, textVars>>
    /\ UNCHANGED uiVars

\* gemini.py:75-83: generate_content returns, the loop is left by `break`
CallReturns ==
    /\ pc = "running"
    /\ tpc = "call"
    /\ \E r \in Responses : response' = r
    /\ succeeded' = [succeeded EXCEPT ![agent] = [n |-> attempt_num, response |-> response']]
    /\ tpc' = "post"
    /\ UNCHANGED <<agent, attempt_num, wait_time, log, fellBack>>
    /\ UNCHANGED <<invoked, attempts, delays, callOrder, returned, initError>>
    /\ UNCHANGED <<wfVars, textVars>>
    /\ UNCHANGED uiVars

\* Mutant: the loop gives up one attempt early.
LastAttempt_oneEarly(n) == n = max_attempts - 1

\* gemini.py:87, `if attempt_num == max_attempts`
LastAttempt(n) == n = max_attempts

\* shopping_app.py:73,84,95 / gemini.py:152-154: the assignment of the
\* awaited result to the orchestrator's local for task a
AssignText(a, t) ==
    /\ product_text' = IF a = 1 THEN t ELSE product_text
    /\ price_text'   = IF a = 2 THEN t ELSE price_text
    /\ news_text'    = IF a = 3 THEN t ELSE news_text

\* Mutant: the failure of the last attempt is swallowed; the task returns
\* None and the workflow goes on.
CallRaises_swallowed ==
    /\ pc = "running"
    /\ tpc = "call"
    /\ wait_time' = WaitTime(attempt_num)
    /\ LoggerStep(FALSE)
    /\ IF LastAttempt(attempt_num)
       THEN /\ log' = Emit(Emit(log, [kind |-> "failed", wait |-> wait_time']),
                           [kind |-> "abort"])
            /\ returned' = [returned EXCEPT ![agent] = None]
            /\ AssignText(agent, None)
            /\ tpc' = "returned"
            /\ UNCHANGED delays
       ELSE /\ log' = Emit(log, [kind |-> "failed", wait |-> wait_time'])
            /\ delays' = [delays EXCEPT ![agent] = Append(@, wait_time')]
            /\ tpc' = "sleep"
            /\ UNCHANGED <<returned, textVars>>
    /\ UNCHANGED <<agent, attempt_num, response>>
    /\ UNCHANGED <<invoked, attempts, callOrder, succeeded, initError>>
    /\ UNCHANGED wfVars
    /\ UNCHANGED uiVars

\* Mutant: the failure of the last attempt ends the workflow with a report
\* of the texts collected so far.
CallRaises_partialReport ==
    /\ pc = "running"
    /\ tpc = "call"
    /\ wait_time' = WaitTime(attempt_num)
    /\ LoggerStep(FALSE)
    /\ IF LastAttempt(attempt_num)
       THEN /\ log' = Emit(Emit(log, [kind |-> "failed", wait |-> wait_time']),
                           [kind |-> "abort"])
            /\ report' = [product |-> product_text, price |-> price_text, news |-> news_text]
            /\ tpc' = "raised"
            /\ pc' = "exit_session"
            /\ UNCHANGED delays
       ELSE /\ log' = Emit(log, [kind |-> "failed", wait |-> wait_time'])
            /\ delays' = [delays EXCEPT ![agent] = Append(@, wait_time')]
            /\ tpc' = "sleep"
            /\ UNCHANGED <<report, pc>>
    /\ UNCHANGED <<agent, attempt_num, response>>
    /\ UNCHANGED <<invoked, attempts, callOrder, returned, succeeded, initError>>
    /\ UNCHANGED <<variant, enable_logs, stdio, session, closeCount, exc, printed>>
    /\ UNCHANGED textVars
    /\ UNCHANGED uiVars

\* Mutant: the backoff sleep comes before the test for the last attempt.
CallRaises_sleepThenRaise ==
    /\ pc = "running"
    /\ tpc = "call"
    /\ wait_time' = WaitTime(attempt_num)
    /\ LoggerStep(FALSE)
    /\ delays' = [delays EXCEPT ![agent] = Append(@, wait_time')]
    /\ \E e \in Exceptions :
        IF LastAttempt(attempt_num)
        THEN /\ log' = Emit(Emit(log, [kind |-> "failed", wait |-> wait_time']),
                            [kind |-> "abort"])
             /\ exc' = e
             /\ tpc' = "raised"
             /\ pc' = "exit_session"
        ELSE /\ log' = Emit(log, [kind |-> "failed", wait |-> wait_time'])
             /\ tpc' = "sleep"
             /\ UNCHANGED <<exc, pc>>
    /\ UNCHANGED <<agent, attempt_num, response>>
    /\ UNCHANGED <<invoked, attempts, callOrder, returned, succeeded, initError>>
    /\ UNCHANGED <<variant, enable_logs, stdio, session, closeCount, report, printed>>
    /\ UNCHANGED textVars
    /\ UNCHANGED uiVars

\* gemini.py:84-90: generate_content raises; the last attempt re-raises, the
\* others start the backoff sleep
CallRaises ==
    /\ pc = "running"
    /\ tpc = "call"
    /\ wait_time' = WaitTime(attempt_num)
    /\ LoggerStep(FALSE)
    /\ \E e \in Exceptions :
        IF LastAttempt(attempt_num)
        THEN /\ log' = Emit(Emit(log, [kind |-> "failed", wait |-> wait_time']),
                            [kind |-> "abort"])
             /\ exc' = e
             /\ tpc' = "raised"
             /\ pc' = "exit_session"
             /\ UNCHANGED delays
        ELSE /\ log' = Emit(log, [kind |-> "failed", wait |-> wait_time'])
             /\ delays' = [delays EXCEPT ![agent] = Append(@, wait_time')]
             /\ tpc' = "sleep"
             /\ UNCHANGED <<exc, pc>>
    /\ UNCHANGED <<agent, attempt_num, response>>
    /\ UNCHANGED <<invoked, attempts, callOrder, returned, succeeded, initError>>
    /\ UNCHANGED <<variant, enable_logs, stdio, session, closeCount, report, printed>>
    /\ UNCHANGED textVars
    /\ UNCHANGED uiVars

\* Mutant: the loop is `while True`, the attempt number is never advanced.
SleepDone_retryForever ==
    /\ pc = "running"
    /\ tpc = "sleep"
    /\ attempt_num' = attempt_num
    /\ tpc' = "try"
    /\ UNCHANGED <<agent, response, wait_time, log, fellBack>>
    /\ UNCHANGED <<wfVars, histVars, textVars>>
    /\ UNCHANGED uiVars

\* gemini.py:72,90: asyncio.sleep returns and the for loop takes its next
\* value, or ends when range(1, max_attempts + 1) is used up
SleepDone ==
    /\ pc = "running"
    /\ tpc = "sleep"
    /\ IF attempt_num + 1 \in 1..max_attempts
       THEN attempt_num' = attempt_num + 1 /\ tpc' = "try"
       ELSE attempt_num' = attempt_num /\ tpc' = "post"
    /\ UNCHANGED <<agent, response, wait_time, log, fellBack>>
    /\ UNCHANGED <<wfVars, histVars, textVars>>
    /\ UNCHANGED uiVars

\* gemini.py:92-118: the response is walked for logging and its text returned.
\* `response.text` on None and enumerate(None) raise out of run_agent_task.
PostProcess ==
    /\ pc = "running"
    /\ tpc = "post"
    /\ LoggerStep(FALSE)
    /\ IF response = NoResponse \/ WalkRaises(response)
       THEN /\ exc' = "OtherError"
            /\ tpc' = "raised"
            /\ pc' = "exit_session"
            /\ log' = log
            /\ UNCHANGED <<returned, textVars>>
       ELSE /\ log' = Emit(EmitAll(log, Classify(response)),
                           [kind |-> "completed", text |-> FinalText(response)])
            /\ returned' = [returned EXCEPT ![agent] = FinalText(response)]
            /\ AssignText(agent, FinalText(response))
            /\ tpc' = "returned"
            /\ UNCHANGED <<exc, pc>>
    /\ UNCHANGED <<agent, attempt_num, response, wait_time>>
    /\ UNCHANGED <<invoked, attempts, delays, callOrder, succeeded, initError>>
    /\ UNCHANGED <<variant, enable_logs, stdio, session, closeCount, report, printed>>
    /\ UNCHANGED uiVars

----------------------------------------------------------------------------
(* The end of the workflow *)

\* Mutant: the price and news texts are stored under each other's key.
BuildReport_swapped(p, q, n) == [product |-> p, price |-> n, news |-> q]

\* shopping_app.py:104-108
BuildReport(p, q, n) == [product |-> p, price |-> q, news |-> n]

\* shopping_app.py:104-108: the three texts are returned as the report
ReturnReport ==
    /\ variant = "dash"
    /\ pc = "running"
    /\ tpc = "returned"
    /\ agent = Len(AgentSpecs)
    /\ report' = BuildReport(product_text, price_text, news_text)
    /\ pc' = "exit_session"
    /\ UNCHANGED <<variant, enable_logs, stdio, session, closeCount, exc, printed>>
    /\ UNCHANGED <<taskVars, histVars, textVars>>
    /\ UNCHANGED uiVars

\* gemini.py:157-163: the three texts are printed as the unified report
PrintReport ==
    /\ variant = "cli"
    /\ pc = "running"
    /\ tpc = "returned"
    /\ agent = Len(AgentSpecs)
    /\ printed' = <<product_text, price_text, news_text>>
    /\ pc' = "exit_session"
    /\ UNCHANGED <<variant, enable_logs, stdio, session, closeCount, exc, report>>
    /\ UNCHANGED <<taskVars, histVars, textVars>>
    /\ UNCHANGED uiVars

----------------------------------------------------------------------------

Next ==
    \/ ScriptSkips
    \/ ScriptRuns
    \/ AsyncioRun
    \/ WorkflowEnds
    \/ Fallback
    \/ RenderSections
    \/ OpenStdio
    \/ OpenStdioFails
    \/ EnterSession
    \/ InitializeOk
    \/ InitializeFails
    \/ StartTask
    \/ Attempt
    \/ CallReturns
    \/ CallRaises
    \/ SleepDone
    \/ PostProcess
    \/ ReturnReport
    \/ PrintReport
    \/ ExitSession
    \/ ExitStdio

Spec == Init /\ [][Next]_vars

----------------------------------------------------------------------------
(* Properties *)

\* The number of events of kind k in a task's log.
CountKind(l, k) == Cardinality({i \in 1..Len(l) : l[i].ev.kind = k})

\* Every generate_content call of task a has been made and has failed.
Exhausted(a) ==
    /\ attempts[a] >= max_attempts
    /\ succeeded[a].n = 0
    /\ ~(agent = a /\ tpc = "call")

\* The workflow is being left with an exception, or has been.
Aborting == pc \in {"exit_session", "exit_stdio", "aborted"} /\ exc # NoExc

\* C1: a task whose model call fails on every attempt makes exactly
\* max_attempts calls, never one more, and then raises to its caller; it
\* raises from the retry loop after no fewer calls than that.
C1_ExhaustedAfterMaxAttempts ==
    \A a \in Agents :
        /\ attempts[a] <= max_attempts
        /\ (agent = a /\ tpc = "raised" /\ succeeded[a].n = 0)
              => attempts[a] = max_attempts
        /\ Exhausted(a)
              => /\ agent = a /\ tpc = "raised"
                 /\ attempts[a] = max_attempts
                 /\ CountKind(log, "failed") = max_attempts
                 /\ Aborting

C1_Witness == \E a \in Agents : Exhausted(a) /\ tpc = "raised" /\ pc = "aborted"

\* C2: when the call fails on attempts 1..k-1 and returns on attempt k, the
\* task returns the text of that response, k calls were made (k-1 of them
\* failed and were followed by a sleep), and no call follows the success.
C2_SuccessOnAttemptK ==
    \A a \in Agents :
        succeeded[a].n > 0 =>
            /\ succeeded[a].n \in 1..max_attempts
            /\ attempts[a] = succeeded[a].n
            /\ Len(delays[a]) = succeeded[a].n - 1
            /\ agent = a => /\ CountKind(log, "attempt") = succeeded[a].n
                            /\ CountKind(log, "failed") = succeeded[a].n - 1
                            /\ tpc \in {"post", "returned"}
            /\ (agent = a /\ tpc = "post") \/ returned[a] = succeeded[a].response.text

C2_Witness ==
    /\ pc = "done"
    /\ succeeded[1].n = 1 /\ succeeded[2].n = 3 /\ succeeded[3].n = max_attempts
    /\ returned = [a \in Agents |-> succeeded[a].response.text]
    /\ returned[2] \in Texts

\* C3: the sleep before attempt i (i >= 2) lasts base_delay_sec * 2^(i-2):
\* 1x, 2x and 4x the base delay before attempts 2, 3 and 4.
C3_BackoffDelays ==
    \A a \in Agents :
        /\ Len(delays[a]) <= 3
        /\ \A m \in 1..Len(delays[a]) :
              delays[a][m] = <<base_delay_sec, 2 * base_delay_sec, 4 * base_delay_sec>>[m]
        /\ \A i \in 2..max_attempts :
              attempts[a] >= i => /\ Len(delays[a]) >= i - 1
                                  /\ delays[a][i - 1] = base_delay_sec * 2 ^ (i - 2)

C3_Witness == \E a \in Agents : attempts[a] = 4 /\ delays[a] = <<12, 24, 48>>

\* C4: ClientSession.__aexit__ runs exactly once in a run on each way out of
\* the session scope: after the three tasks returned, after a task raised,
\* and after session.initialize() raised; it never runs twice.
C4_CloseExactlyOnce ==
    /\ closeCount <= 1
    /\ (closeCount = 1) = (session = "closed")
    /\ pc = "done" => closeCount = 1 /\ stdio = "down"
    /\ (pc = "aborted" /\ tpc = "raised") => closeCount = 1 /\ stdio = "down"
    /\ (pc = "aborted" /\ initError = "initialize") => closeCount = 1 /\ stdio = "down"

C4_Witness ==
    /\ pc = "aborted" /\ tpc = "raised" /\ agent = 3
    /\ closeCount = 1 /\ session = "closed"

\* C5: once a task has used up its retries the workflow is left with the
\* exception: no later task is entered and no model call is made for it, and
\* the session is closed on the way out.
C5_AbortSkipsLaterTasks ==
    \A a \in Agents :
        Exhausted(a) =>
            /\ Aborting
            /\ \A b \in Agents :
                  b > a => invoked[b] = 0 /\ attempts[b] = 0 /\ returned[b] = Unset
            /\ report = NoReport /\ printed = <<>>
            /\ pc = "aborted" => closeCount = 1 /\ session = "closed"

C5_Witness ==
    /\ Exhausted(2) /\ pc = "aborted"
    /\ returned[1] \in Texts /\ attempts[3] = 0 /\ closeCount = 1

\* C6: each agent spec is run at most once, in the order product, price,
\* news: a task is entered, and a model call made for it, only after every
\* earlier task has returned, so the calls of the tasks never interleave.
C6_FixedOrder ==
    /\ \A a \in Agents : invoked[a] <= 1 /\ (attempts[a] > 0 => invoked[a] = 1)
    /\ \A a, b \in Agents :
          (a < b /\ invoked[b] > 0) =>
              /\ invoked[a] = 1
              /\ returned[a] # Unset
              /\ agent # a
              /\ Len(delays[a]) = attempts[a] - 1
    /\ \A i, j \in 1..Len(callOrder) : i < j => callOrder[i] <= callOrder[j]
    /\ tpc \in {"try", "call", "sleep", "post"} =>
          \A b \in Agents : b > agent => invoked[b] = 0

C6_Witness ==
    /\ pc = "done"
    /\ callOrder = <<1, 1, 2, 2, 2, 3, 3>>

\* C7: while a task runs (before a call, during a call, during a backoff
\* sleep, while the response is processed) the session is initialized and
\* not closed; nothing is invoked before initialize returns.
C7_SessionReadyWhileRunning ==
    /\ tpc \in {"try", "call", "sleep", "post"} =>
          session = "ready" /\ stdio = "up" /\ pc = "running"
    /\ session \in {"none", "open"} =>
          \A a \in Agents : invoked[a] = 0 /\ attempts[a] = 0
    /\ session = "closed" => pc \in {"exit_stdio", "done", "aborted"}

C7_Witness ==
    /\ agent = 2 /\ tpc = "call" /\ attempt_num = 3
    /\ session = "ready"

\* C8: the report maps product, price and news to the text returned by the
\* first, second and third task, each the text of the response of its own
\* successful call (the console variant prints them in that order).
C8_ReportMapsTexts ==
    /\ report # NoReport => variant = "dash" /\ pc \in {"exit_session", "exit_stdio", "done"}
    /\ printed # <<>> => variant = "cli" /\ pc \in {"exit_session", "exit_stdio", "done"}
    /\ pc = "done" =>
          /\ \A a \in Agents : returned[a] = succeeded[a].response.text
          /\ variant = "dash" =>
                report = [product |-> returned[1], price |-> returned[2], news |-> returned[3]]
          /\ variant = "cli" =>
                printed = <<returned[1], returned[2], returned[3]>>

C8_Witness ==
    /\ pc = "done" /\ variant = "dash"
    /\ returned[1] = "A" /\ returned[2] = "B" /\ returned[3] = "C"
    /\ report = [product |-> "A", price |-> "B", news |-> "C"]

\* The response carries no candidates: the list is None or empty.
NoCandidates(r) == r.candidates_is_none \/ r.candidates = <<>>

\* C9: when the call returns a response without candidates, the task returns
\* None and does not raise.
C9_NoCandidatesReturnsNone ==
    \A a \in Agents :
        (succeeded[a].n > 0 /\ NoCandidates(succeeded[a].response)) =>
            /\ ~(agent = a /\ tpc = "raised")
            /\ agent = a => exc = NoExc
            /\ (agent = a /\ tpc = "post") \/ returned[a] = None

C9_Witness ==
    /\ agent = 2 /\ tpc = "returned"
    /\ succeeded[2].response.candidates_is_none
    /\ returned[2] = None /\ price_text = None /\ exc = NoExc

\* C10: when the spawn of the tool server or session.initialize() raises,
\* the workflow is left with the exception: no task is entered, no model
\* call is made and nothing is returned or printed as a report.
C10_InitErrorAborts ==
    initError # "none" =>
        /\ exc # NoExc
        /\ pc \in {"exit_session", "exit_stdio", "aborted"}
        /\ agent = 0 /\ tpc = "none"
        /\ \A a \in Agents : invoked[a] = 0 /\ attempts[a] = 0 /\ returned[a] = Unset
        /\ callOrder = <<>>
        /\ report = NoReport /\ printed = <<>>

C10_Witness == initError = "initialize" /\ pc = "aborted" /\ closeCount = 1

\* C11: a failure of a running task leaves the workflow through the session
\* scope (the session is closed, then the exception reaches the caller); the
\* texts of the tasks that had returned are dropped: nothing is returned,
\* printed as the report or rendered.
C11_FailureDiscardsPartialResults ==
    \A a \in Agents :
        (Exhausted(a) \/ (agent = a /\ tpc = "raised")) =>
            /\ exc # NoExc
            /\ pc \in {"exit_session", "exit_stdio", "aborted"}
            /\ pc = "exit_session" => session = "ready" /\ closeCount = 0
            /\ pc \in {"exit_stdio", "aborted"} => session = "closed" /\ closeCount = 1
            /\ report = NoReport /\ printed = <<>> /\ rendered = <<>>
            /\ hpc \in {"running", "fallback", "crashed"}

C11_Witness ==
    /\ agent = 3 /\ tpc = "raised" /\ Exhausted(3)
    /\ returned[1] \in Texts /\ returned[2] \in Texts
    /\ pc = "aborted" /\ hpc = "crashed"
    /\ report = NoReport

\* The events of the retry loop in a task's log.
RetryEvents(l) == SelectSeq(l, LAMBDA e : e.ev.kind \in {"attempt", "failed", "abort"})
EventsOfKind(l, k) == SelectSeq(l, LAMBDA e : e.ev.kind = k)

\* The attempts of the current task that have failed so far.
FailedAttempts ==
    attempts[agent] - (IF tpc = "call" THEN 1 ELSE 0)
                    - (IF succeeded[agent].n > 0 THEN 1 ELSE 0)

\* C12 as stated: the retry loop emits one event per attempt, each carrying
\* the attempt number and the wait time, to the caller's logger.
C12_OneEventPerAttemptWithWait ==
    agent >= 1 =>
        /\ Len(RetryEvents(log)) = attempts[agent]
        /\ \A i \in 1..Len(RetryEvents(log)) :
              /\ {"n", "wait"} \subseteq DOMAIN RetryEvents(log)[i].ev
              /\ RetryEvents(log)[i].sink = "logger"

\* C12, amended: every attempt is announced by one event that carries the
\* attempt number and max_attempts (n events for n attempts, failed or not);
\* the wait time is carried by a second event that only a failed attempt
\* emits; the events go through emit, to the logger when the caller gave
\* one (to stdout when it raises) and to stdout otherwise.
C12_AttemptAndFailureEvents ==
    agent >= 1 =>
        /\ Len(EventsOfKind(log, "attempt")) = attempts[agent]
        /\ \A i \in 1..Len(EventsOfKind(log, "attempt")) :
              /\ EventsOfKind(log, "attempt")[i].ev.n = i
              /\ EventsOfKind(log, "attempt")[i].ev.of = max_attempts
              /\ "wait" \notin DOMAIN EventsOfKind(log, "attempt")[i].ev
        /\ Len(EventsOfKind(log, "failed")) = FailedAttempts
        /\ \A i \in 1..Len(EventsOfKind(log, "failed")) :
              EventsOfKind(log, "failed")[i].ev.wait = base_delay_sec * 2 ^ (i - 1)
        /\ \A i \in 1..Len(log) :
              log[i].sink = IF variant = "dash" /\ enable_logs THEN "logger" ELSE "print"
        /\ fellBack => variant = "dash" /\ enable_logs

C12_Witness ==
    /\ agent = 2 /\ tpc = "returned" /\ succeeded[2].n = 3
    /\ Len(EventsOfKind(log, "attempt")) = 3
    /\ Len(EventsOfKind(log, "failed")) = 2
    /\ fellBack

\* C13: the failure of the last attempt is raised at once, without a sleep:
\* a task whose attempts all fail sleeps max_attempts - 1 times, and every
\* sleep lies between one attempt and the next.
C13_NoWaitAfterFinalFailure ==
    \A a \in Agents :
        /\ Exhausted(a) => Len(delays[a]) = max_attempts - 1 /\ agent = a /\ tpc = "raised"
        /\ (agent = a /\ tpc = "sleep") =>
              attempt_num < max_attempts /\ Len(delays[a]) = attempts[a]
        /\ (agent = a /\ tpc = "try" /\ attempt_num > 1) => Len(delays[a]) = attempts[a]
        /\ (attempts[a] > 0 /\ (agent # a \/ tpc \in {"call", "post", "returned", "raised"}))
              => Len(delays[a]) = attempts[a] - 1

C13_Witness ==
    /\ Exhausted(1) /\ tpc = "raised"
    /\ delays[1] = <<12, 24, 48>>
    /\ pc = "exit_session"

\* C14: the walk over the candidates and parts is logging only: whatever the
\* shape of a response that was received, and whatever the logger does, the
\* task returns, and returns the text of that response.
C14_ClassificationHasNoEffect ==
    \A a \in Agents :
        succeeded[a].n > 0 =>
            /\ ~(agent = a /\ tpc = "raised")
            /\ (agent = a /\ tpc = "post") \/ returned[a] = FinalText(succeeded[a].response)

\* C15: a task that returns None is no error: the workflow stays in its
\* normal course (the next task is entered, or the report is built), ends
\* done with the session closed, and the report holds None for that section
\* and the texts of the others; the dashboard shows "No data." for it.
C15_MissingAnswerIsNoError ==
    /\ \A a \in Agents :
          (agent = a /\ tpc = "returned" /\ returned[a] = None) =>
              /\ exc = NoExc
              /\ pc \in {"running", "exit_session", "exit_stdio", "done"}
              /\ (pc = "running" /\ a < Len(AgentSpecs)) => ENABLED StartTask
              /\ (pc = "running" /\ a = Len(AgentSpecs)) => ENABLED (ReturnReport \/ PrintReport)
    /\ (\E a \in Agents : returned[a] = None) =>
          (exc # NoExc => \E b \in Agents : returned[b] = Unset /\ invoked[b] = 1)
    /\ (pc = "done" /\ variant = "dash") =>
          /\ session = "closed"
          /\ report.product = returned[1] /\ report.price = returned[2]
          /\ report.news = returned[3]
    /\ rendered # <<>> =>
          \A a \in Agents :
              rendered[a] = IF returned[a] = None THEN "No data." ELSE returned[a]

C15_Witness ==
    /\ hpc = "finished" /\ pc = "done" /\ session = "closed"
    /\ returned[1] = "A" /\ returned[2] = None /\ returned[3] = "C"
    /\ report = [product |-> "A", price |-> None, news |-> "C"]
    /\ rendered = <<"A", "No data.", "C">>

\* C16: one press of Run starts the workflow at most once, whatever it
\* raises: the except clause never gets the coroutine started again, so each
\* task is entered at most once and the session is opened and closed at
\* most once for the press.
C16_WorkflowStartedAtMostOnce ==
    /\ runs <= 1
    /\ hpc # "running_fallback"
    /\ \A a \in Agents : invoked[a] <= runs
    /\ closeCount <= runs
    /\ (stdio # "none" \/ session # "none") => runs = 1
    /\ (hpc = "fallback" /\ runs = 1) => loop = "none" /\ pc = "aborted"

C16_Witness ==
    /\ hpc = "crashed" /\ variant = "dash" /\ runs = 1
    /\ exc = "RuntimeError" /\ tpc = "raised" /\ agent = 2
    /\ loop = "none"

----------------------------------------------------------------------------
(* Termination *)

\* Every await of the workflow returns or raises in the end, and the script
\* goes on whenever it can.
FairSpec == Spec /\ WF_vars(Next)

\* C17: the retries are bounded, so a run that was started ends done or
\* aborted, after at most max_attempts model calls per task and
\* 3 * max_attempts (12) in all.
C17_RunTerminates ==
    /\ [](Len(callOrder) <= 3 * max_attempts /\ Len(callOrder) <= 12)
    /\ [](\A a \in Agents : attempts[a] <= max_attempts)
    /\ [](pc # "idle" => <>(pc \in {"done", "aborted"}))

C17_Witness ==
    /\ pc = "done"
    /\ Len(callOrder) = 12
    /\ \A a \in Agents : attempts[a] = max_attempts

====
